---------------------------- MODULE Spec2Model ----------------------------
(***************************************************************************)
(* Streaming-response pipeline of openrouter-tui: the SSE line loop, the   *)
(* accumulator, the Markdown renderer, the turn controller, the display    *)
(* queue and the loading indicator.                                        *)
(*                                                                         *)
(* The repository carries four revisions of the program:                   *)
(*   "p000a"  src/unnamed/part_000, lines 1-430                            *)
(*   "p000b"  src/unnamed/part_000, lines 432-850                          *)
(*   "main"   src/main.go                                                  *)
(*   "p001"   src/unnamed/part_001                                         *)
(* The variable rev fixes the revision a behaviour runs.                   *)
(*                                                                         *)
(* Text is a sequence of one-character strings; a style tag of the display *)
(* ("[blue]", "[::b]", ...) and a fixed phrase of a notice are one token.  *)
(***************************************************************************)
EXTENDS Integers, Sequences, FiniteSets, TLC

(***************************************************************************)
(* Bounds of the model.                                                    *)
(***************************************************************************)
\* submissions, body lines, failures and spinner wake-ups of a behaviour, together
MaxEvents == 4
\* the same, of a behaviour of FairSpec
MaxFairEvents == 3
\* turns a behaviour may start
MaxTurns == 2
\* body lines read over a whole behaviour
MaxLines == 3
\* wake-ups of the spinners that find the flag set, over a whole behaviour
MaxFrames == 2
\* the length of a text given to the renderer on its own
MaxText == 5
\* the length of a line given to the inline pass
MaxInline == 4
\* the number of lines of a text made of sample lines
MaxRenderLines == 3

Revisions == {"p000a", "p000b", "main", "p001"}

(***************************************************************************)
(* Strings (package strings / unicode of the Go library).                  *)
(***************************************************************************)
NL == "\n"

\* the backtick character (0x60), which a TLA+ string cannot hold
Backtick == "BACKTICK"

Backslash == "\\"

\* unicode.IsSpace on the characters of the model
IsSpace(c) == c \in {" ", "\t", "\n", "\r"}

\* unicode.IsPrint: the space is printable, the control characters are not
IsPrint(c) == c \notin {"\t", "\n", "\r"}

RECURSIVE TrimLeft(_)
TrimLeft(s) ==
  IF s # <<>> /\ IsSpace(Head(s)) THEN TrimLeft(Tail(s)) ELSE s

RECURSIVE TrimRight(_)
TrimRight(s) ==
  IF s # <<>> /\ IsSpace(s[Len(s)]) THEN TrimRight(SubSeq(s, 1, Len(s) - 1)) ELSE s

TrimSpace(s) == TrimRight(TrimLeft(s))

HasPrefix(s, p) == Len(s) >= Len(p) /\ SubSeq(s, 1, Len(p)) = p

HasSuffix(s, p) == Len(s) >= Len(p) /\ SubSeq(s, Len(s) - Len(p) + 1, Len(s)) = p

TrimSuffix(s, p) == IF HasSuffix(s, p) THEN SubSeq(s, 1, Len(s) - Len(p)) ELSE s

\* strings.Split(s, sep) for a one-character sep: always at least one piece
RECURSIVE SplitFrom(_, _, _, _)
SplitFrom(s, sep, i, cur) ==
  IF i > Len(s) THEN <<cur>>
  ELSE IF s[i] = sep THEN <<cur>> \o SplitFrom(s, sep, i + 1, <<>>)
  ELSE SplitFrom(s, sep, i + 1, Append(cur, s[i]))

Split(s, sep) == SplitFrom(s, sep, 1, <<>>)

\* strings.Join(parts, sep)
RECURSIVE Join(_, _)
Join(parts, sep) ==
  IF parts = <<>> THEN <<>>
  ELSE IF Len(parts) = 1 THEN parts[1]
  ELSE parts[1] \o <<sep>> \o Join(Tail(parts), sep)

\* the characters of s that satisfy unicode.IsPrint, in order
RECURSIVE filteredString(_)
filteredString(s) ==
  IF s = <<>> THEN <<>>
  ELSE IF IsPrint(Head(s)) THEN <<Head(s)>> \o filteredString(Tail(s))
  ELSE filteredString(Tail(s))

\* ReplaceAll(s, tok, ""): every occurrence of the token removed
RECURSIVE RemoveAll(_, _)
RemoveAll(s, toks) ==
  IF s = <<>> THEN <<>>
  ELSE IF Head(s) \in toks THEN RemoveAll(Tail(s), toks)
  ELSE <<Head(s)>> \o RemoveAll(Tail(s), toks)

RECURSIVE Concat(_)
Concat(ss) == IF ss = <<>> THEN <<>> ELSE Head(ss) \o Concat(Tail(ss))

(***************************************************************************)
(* MarkdownParser.                                                         *)
(***************************************************************************)
\* the backtick case of markdownLine is guarded by !p.partialMode in p001 only
BacktickEnabled(r, partial) == IF r = "p001" THEN ~partial ELSE TRUE

\* markdownLine: the scan of one line from byte i (1-based), the buffer reset on
\* entry; yields the buffer and the parser's inCode flag after the line
RECURSIVE markdownScan(_, _, _, _, _, _, _)
markdownScan(r, partial, line, i, active, inCode, buf) ==
  IF i > Len(line)
  THEN [buf |-> IF active THEN buf \o <<"[::-]">> ELSE buf, inCode |-> inCode]
  ELSE IF i > 1 /\ line[i - 1] = Backslash
  THEN markdownScan(r, partial, line, i + 1, active, inCode, buf)
  ELSE IF i < Len(line) /\ line[i] = "*" /\ line[i + 1] = "*" /\ ~inCode
  THEN markdownScan(r, partial, line, i + 2, ~active, inCode,
         buf \o (IF active THEN <<"[::-]", "[white]">> ELSE <<"[::b]", "[white]">>))
  ELSE IF i < Len(line) /\ line[i] = "_" /\ line[i + 1] = "_" /\ ~inCode
  THEN markdownScan(r, partial, line, i + 2, ~active, inCode,
         buf \o (IF active THEN <<"[::-]", "[white]">> ELSE <<"[::u]", "[white]">>))
  ELSE IF line[i] \in {"*", "_"} /\ ~inCode
  THEN markdownScan(r, partial, line, i + 1, ~active, inCode,
         buf \o (IF active THEN <<"[::-]", "[white]">> ELSE <<"[::i]", "[white]">>))
  ELSE IF line[i] = Backtick /\ ~inCode /\ BacktickEnabled(r, partial)
  THEN markdownScan(r, partial, line, i + 2, ~active, TRUE, buf \o <<"[::r]">>)
  ELSE markdownScan(r, partial, line, i + 1, active, inCode, Append(buf, line[i]))

markdownLine(r, partial, line, inCode) ==
  markdownScan(r, partial, line, 1, FALSE, inCode, <<>>)

\* the table branch: each non-empty trimmed cell in a bold run followed by a space
RECURSIVE TableCells(_)
TableCells(cells) ==
  IF cells = <<>> THEN <<>>
  ELSE LET cell == TrimSpace(Head(cells))
       IN (IF cell # <<>> THEN <<"[::b]">> \o cell \o <<"[::-]", " ">> ELSE <<>>)
            \o TableCells(Tail(cells))

\* consecutive empty lines are skipped always in main.go, in partial mode in p001
SkipsEmptyRun(r, partial) == IF r = "p001" THEN partial ELSE TRUE

\* the loop of renderInternal / RenderMarkdown over lines[i..], st the parser's
\* fields (inQuote, inList, inCode) and the local prevLineEmpty
RECURSIVE renderLines(_, _, _, _, _, _)
renderLines(r, partial, lines, i, st, output) ==
  IF i > Len(lines) THEN [output |-> output, st |-> st]
  ELSE
    LET line == lines[i]
        trimmed == TrimSpace(line)
        lineEmpty == trimmed = <<>>
        st1 == [st EXCEPT !.prevLineEmpty = lineEmpty]
    IN IF lineEmpty /\ st.prevLineEmpty /\ SkipsEmptyRun(r, partial)
       THEN renderLines(r, partial, lines, i + 1, st, output)
       ELSE IF HasPrefix(trimmed, <<Backtick, Backtick, Backtick>>)
       THEN renderLines(r, partial, lines, i + 1, st1, output)
       ELSE IF HasPrefix(trimmed, <<"|">>)
       THEN IF i > 1 /\ HasPrefix(TrimSpace(lines[i - 1]), <<"|">>)
            THEN renderLines(r, partial, lines, i + 1, st1,
                   output \o TableCells(Split(trimmed, "|")) \o <<NL>>)
            ELSE renderLines(r, partial, lines, i + 1, st1, output)
       ELSE IF HasPrefix(trimmed, <<">", " ">>)
       THEN LET m == markdownLine(r, partial,
                       filteredString(SubSeq(trimmed, 3, Len(trimmed))), st.inCode)
            IN renderLines(r, partial, lines, i + 1,
                 [st1 EXCEPT !.inQuote = TRUE, !.inCode = m.inCode],
                 output \o m.buf \o <<NL>>)
       ELSE IF HasPrefix(trimmed, <<"-", " ">>) \/ HasPrefix(trimmed, <<"*", " ">>)
       THEN LET m == markdownLine(r, partial,
                       filteredString(SubSeq(trimmed, 3, Len(trimmed))), st.inCode)
            IN renderLines(r, partial, lines, i + 1,
                 [st1 EXCEPT !.inList = TRUE, !.inCode = m.inCode],
                 output \o m.buf \o <<NL>>)
       ELSE IF lineEmpty
       THEN renderLines(r, partial, lines, i + 1,
              [st1 EXCEPT !.inList = FALSE, !.inQuote = FALSE], output \o <<NL>>)
       ELSE LET m == markdownLine(r, partial, filteredString(line), st.inCode)
            IN renderLines(r, partial, lines, i + 1,
                 [st1 EXCEPT !.inCode = m.inCode], output \o m.buf \o <<NL>>)

\* the fields of a MarkdownParser that a render reads or writes
FreshParser == [inCode |-> FALSE, inQuote |-> FALSE, inList |-> FALSE, partialMode |-> FALSE]

\* a Reset that leaves inCode as the last render left it
Reset_KeepsInCode(p) == [p EXCEPT !.inQuote = FALSE, !.inList = FALSE]

\* Reset
Reset(p) == [p EXCEPT !.inCode = FALSE, !.inQuote = FALSE, !.inList = FALSE]

\* a render on the parser p: partialMode set (p001), Reset(), then the loop; yields
\* the output and the parser's fields after the call
renderOn(r, p, text, partial) ==
  LET p0 == Reset([p EXCEPT !.partialMode = IF r = "p001" THEN partial ELSE @])
      res == renderLines(r, partial, Split(text, NL), 1,
               [inQuote |-> p0.inQuote, inList |-> p0.inList, inCode |-> p0.inCode,
                prevLineEmpty |-> TRUE], <<>>)
  IN [output |-> res.output,
      parser |-> [p0 EXCEPT !.inCode = res.st.inCode, !.inQuote = res.st.inQuote,
                            !.inList = res.st.inList]]

\* a render on a parser no earlier render has left a trace on
renderInternal(r, text, partial) == renderOn(r, FreshParser, text, partial).output

RenderMarkdown(r, text) == renderInternal(r, text, FALSE)

RenderPartial(r, text) == renderInternal(r, text, TRUE)

\* the revisions that have a MarkdownParser
HasRenderer(r) == r \in {"main", "p001"}

(***************************************************************************)
(* The chat view (tview.TextView): its buffer is the text written to it.   *)
(***************************************************************************)
\* the style tags the programs write; GetText(true) strips them
Tags == {"[purple]", "[blue]", "[red]", "[yellow]", "[white]", "[darkcyan]", "[-]",
         "[::b]", "[::u]", "[::i]", "[::r]", "[::-]"}

\* chatHistory.GetText(true)
GetText(chat) == RemoveAll(chat, Tags)

\* the buffer after SetupUI
InitialChat(r) ==
  CASE r = "p000a" -> <<"Welcome to OpenRouter Chat!">>
    [] r = "p001" -> <<"Welcome to OpenRouter Chat!", NL, "Enter your message below">>
    [] OTHER -> <<>>

\* formatPlainMessage, which only main.go applies to the user's text
formatPlainMessage(r, text) == IF r = "main" THEN filteredString(text) ELSE text

\* the text AppendToChat writes for a role
AppendToChatText(r, role, text) ==
  CASE role = "You" ->
         <<"[purple]", "You:", "[-]", " ", "[white]">> \o formatPlainMessage(r, text)
           \o (IF r = "p000b" THEN <<"[-]">> ELSE <<>>) \o <<NL>>
    [] role = "Assistant" ->
         IF r \in {"main", "p001"}
         THEN <<"[blue]", "Assistant:", "[-]", " ">> \o RenderMarkdown(r, text) \o <<NL>>
         ELSE <<"[blue]", "Assistant:", "[-]", " ", "[white]">> \o text
                \o (IF r = "p000b" THEN <<"[-]">> ELSE <<>>) \o <<NL>>
    [] role = "System" ->
         <<"[red]", "System:", "[-]", " ">>
           \o (IF r = "main" THEN <<"[red]">> ELSE <<>>) \o text \o <<NL>>

AppendToChat(r, chat, role, text) == chat \o AppendToChatText(r, role, text)

\* AppendToChatPlain (p000b, main.go): the role argument is not used
AppendToChatPlain(chat, role, text) ==
  chat \o <<"[blue]", "Assistant:", "[-]", " ", "[yellow]">> \o text

\* the queued update of one delta in p000a and p001: p001 writes the label and
\* the partial render of the delta, p000a the label and the delta for the first
\* delta (AppendPartialAssistant) and the delta alone for the later ones
AppendPartialAssistant(r, chat, text, first) ==
  IF r = "p001"
  THEN chat \o <<"[blue]", "Assistant:", "[-]", " ">> \o RenderPartial(r, text)
  ELSE IF first
  THEN chat \o <<"[blue]", "Assistant:", "[-]", " ", "[yellow]">> \o text
  ELSE chat \o <<"[yellow]">> \o text

\* lines without its last element (lines[:len(lines)-1])
DropLast(lines) == SubSeq(lines, 1, Len(lines) - 1)

\* appendDelta: p000b extends the last line of the view by the delta, main.go
\* replaces the last line by the whole accumulated text
appendDelta(r, chat, delta, acc) ==
  LET lines == Split(GetText(chat), NL)
  IN IF r = "p000b"
     THEN LET lastLine == TrimSuffix(lines[Len(lines)], <<"[-]">>) \o delta \o <<"[yellow]">>
          IN Join(Append(DropLast(lines), lastLine), NL)
     ELSE LET newText == Join(DropLast(lines), NL)
          IN (IF newText # <<>> THEN newText \o <<NL>> ELSE <<>>)
               \o <<"[blue]", "Assistant:", "[-]", " ", "[yellow]">> \o acc

\* the queued update of one delta in p000b and main.go, first telling isFirst
PartialUpdate(r, chat, delta, acc, first) ==
  LET c1 == IF ~first THEN chat
            ELSE IF r = "main"
            THEN AppendToChatPlain(TrimSuffix(GetText(chat), <<NL>>), "Assistant", <<"[yellow]">>)
            ELSE AppendToChatPlain(chat, "Assistant", <<"[yellow]">>)
  IN appendDelta(r, c1, delta, acc)

\* finalizeAssistantMessage (p000b, main.go)
finalizeAssistantMessage(r, chat, acc) ==
  LET lines == Split(GetText(chat), NL)
  IN IF r = "p000b"
     THEN Join(Append(DropLast(lines), RemoveAll(lines[Len(lines)], {"[yellow]", "[-]"})), NL)
            \o <<NL>>
     ELSE Join(Append(DropLast(lines),
                 <<"[blue]", "Assistant:", "[-]", " ">> \o RenderMarkdown(r, acc)), NL)

\* addCompletedAssistantMessage: p000a removes the last line of the view first
addCompletedAssistantMessage(r, chat, text) ==
  IF r = "p000a"
  THEN AppendToChat(r, Join(DropLast(Split(GetText(chat), NL)), NL) \o <<NL>>,
         "Assistant", TrimSuffix(text, <<NL>>))
  ELSE AppendToChat(r, chat, "Assistant", text)

(***************************************************************************)
(* The inputs of a turn.                                                   *)
(***************************************************************************)
\* the texts the user submits (the input handler passes only non-empty text)
Inputs == {<<"q">>}

\* the content strings a chunk's first choice may carry
Contents == {<<"a">>, <<NL, "b">>}

\* a body line as ReadString returns it: its prefix and, after "data:", its
\* payload: the sentinel, a malformed text, or a chunk with its choices' contents
NoPayload == [kind |-> "none", choices |-> <<>>]
DonePayload == [kind |-> "done", choices |-> <<>>]
BadPayload == [kind |-> "bad", choices |-> <<>>]
Chunk(cs) == [kind |-> "chunk", choices |-> cs]

DataLine(p) == [pre |-> "data:", payload |-> p]

BodyLines ==
  {[pre |-> "", payload |-> NoPayload],          \* a blank line
   [pre |-> ":", payload |-> NoPayload],         \* a comment
   [pre |-> "event:", payload |-> NoPayload],    \* another field
   DataLine(DonePayload), DataLine(BadPayload),
   DataLine(Chunk(<<<<>>, <<"a">>>>))}
  \cup {DataLine(Chunk(<<c>>)) : c \in Contents}

\* no data before the end of the stream
NoLine == [pre |-> "eof", payload |-> NoPayload]

\* the statuses a response may carry, and the body of an error response
Statuses == {200, 201, 429}
StatusOK == 200
ErrBody == <<"rate", "limited">>
\* what io.ReadAll returns of it when reading fails
PartBody == <<"rate">>

\* resp.Status and resp.StatusCode as text
StatusText(s) ==
  CASE s = 201 -> "201 Created" [] s = 429 -> "429 Too Many Requests" [] OTHER -> "200 OK"
StatusCodeText(s) == CASE s = 201 -> "201" [] s = 429 -> "429" [] OTHER -> "200"

\* the frames of the spinner
Frames == <<"f0", "f1", "f2", "f3", "f4", "f5", "f6", "f7", "f8", "f9">>

(***************************************************************************)
(* The SSE loop's decisions on one line.                                   *)
(***************************************************************************)
\* strings.TrimSpace(line) == "" || strings.HasPrefix(line, ":")
IsSkipped(line) == line.pre = "" \/ line.pre = ":"

\* strings.HasPrefix(line, "data:")
IsData(line) == line.pre = "data:"

\* jsonStr == "[DONE]"
IsSentinel(line) == IsData(line) /\ line.payload.kind = "done"

\* json.Unmarshal fails
IsMalformed(line) == IsData(line) /\ line.payload.kind = "bad"

\* len(chunk.Choices) > 0 && chunk.Choices[0].Delta.Content != ""
HasDelta(line) ==
  /\ IsData(line)
  /\ line.payload.kind = "chunk"
  /\ Len(line.payload.choices) > 0
  /\ line.payload.choices[1] # <<>>

DeltaOf(line) == line.payload.choices[1]

(***************************************************************************)
(* The messages of the notices.                                           *)
(***************************************************************************)
\* a status branch that reports the status alone
ApiErrorMsg_StatusOnly(r, s, body) ==
  IF r = "p001" THEN <<"API error (", StatusCodeText(s), "): ">>
  ELSE <<"API error: ", StatusText(s), " - ">>

\* fmt.Sprintf of the status branch
ApiErrorMsg(r, s, body) ==
  IF r = "p001" THEN <<"API error (", StatusCodeText(s), "): ">> \o body
  ELSE <<"API error: ", StatusText(s), " - ">> \o body

\* the status branch: main.go and p000a report a failed io.ReadAll instead
StatusErrorMsg(r, s, readOk, data) ==
  IF ~readOk /\ r \in {"main", "p000a"}
  THEN <<"Failed to read error response: ", "err">>
  ELSE ApiErrorMsg(r, s, data)

RequestErrorMsg(k) ==
  CASE k = "marshal" -> <<"Request serialization error: ", "err">>
    [] k = "newreq" -> <<"Request creation error: ", "err">>
    [] OTHER -> <<"API request error: ", "err">>

\* handleStreamError's text: p000a shows the message as is
StreamErrorText(r, msg) == IF r = "p000a" THEN msg ELSE <<"Error: ">> \o msg

EmptyNotice(r) ==
  IF r = "main" THEN <<"Received empty response from assistant">>
  ELSE <<"Assistant returned an empty response">>

\* appendSystemError exists in p000b and main.go; the others log
HasSystemError(r) == r \in {"p000b", "main"}

VARIABLES
  rev,            \* the revision that runs
  limit,          \* the events this behaviour may see
  messages,       \* ui.messages, the conversation log
  chatHistory,    \* the buffer of the chat view
  loadingSpinner, \* the text of the spinner view
  inputDisabled,  \* inputField.SetDisabled
  loadingActive,  \* ui.loadingActive
  assistantText,  \* the content of ui.assistantText
  queue,          \* the updates queued with QueueUpdateDraw, in order
  turn,           \* the turns started
  net,            \* the network goroutine of each turn
  spin,           \* the spinner goroutine of each turn
  nread,          \* history: the number of lines ReadString returned in each turn
  yielded,        \* history: the deltas written to the accumulator in each turn
  ref,            \* history: the reference result of the lines of each turn
  frames,         \* history: the wake-ups of the spinners that found the flag set
  markdownParser  \* ui.markdownParser: the text it was given, the call, the result

vars == <<rev, limit, messages, chatHistory, loadingSpinner, inputDisabled, loadingActive,
          assistantText, queue, turn, net, spin, nread, yielded, ref, frames,
          markdownParser>>

Turns == 1..MaxTurns

IdleNet ==
  [pc |-> "idle", started |-> FALSE, isFirst |-> TRUE, endedBy |-> "none", status |-> 0,
   readOk |-> TRUE, stopped |-> FALSE, payload |-> <<>>]

IdleSpin == [pc |-> "idle", frameIdx |-> 0]

\* a queued update: kind is spin, partial, final, error or notice
Update(k, t, text, why) == [kind |-> k, t |-> t, text |-> text, why |-> why]

\* the reference result of a body, line by line: the deltas up to the first
\* sentinel
RefStart == [out |-> <<>>, done |-> FALSE]

RefStep(r, line) ==
  IF r.done THEN r
  ELSE IF line.pre = "data:" /\ line.payload.kind = "done" THEN [r EXCEPT !.done = TRUE]
  ELSE IF /\ line.pre = "data:"
          /\ line.payload.kind = "chunk"
          /\ line.payload.choices # <<>>
          /\ Head(line.payload.choices) # <<>>
  THEN [r EXCEPT !.out = Append(@, Head(line.payload.choices))]
  ELSE r

Start(n) ==
  /\ rev \in Revisions
  /\ limit = n
  /\ messages = <<>>
  /\ chatHistory = InitialChat(rev)
  /\ loadingSpinner = <<>>
  /\ inputDisabled = FALSE
  /\ loadingActive = FALSE
  /\ assistantText = <<>>
  /\ queue = <<>>
  /\ turn = 0
  /\ net = [t \in Turns |-> IdleNet]
  /\ spin = [t \in Turns |-> IdleSpin]
  /\ nread = [t \in Turns |-> 0]
  /\ yielded = [t \in Turns |-> <<>>]
  /\ ref = [t \in Turns |-> RefStart]
  /\ frames = 0

\* NewMarkdownParser: no call made yet
NewMarkdownParser ==
  [text |-> <<>>, call |-> "none", output |-> <<>>, parser |-> FreshParser,
   before |-> FreshParser]

Init == Start(MaxEvents) /\ markdownParser = NewMarkdownParser

\* the lines read so far over all turns
RECURSIVE TotalLines(_)
TotalLines(t) == IF t = 0 THEN 0 ELSE nread[t] + TotalLines(t - 1)

\* the requests and reads that failed so far
Faults == Cardinality({t \in Turns : net[t].endedBy \in {"fail", "status", "readerr"}})

\* what the user, the server and the timer did so far: submissions, lines,
\* failures and wake-ups of the spinner that found the flag set
Events == turn + TotalLines(MaxTurns) + Faults + frames

MayRead == TotalLines(MaxTurns) < MaxLines /\ Events < limit

(***************************************************************************)
(* The display goroutine: the input handler.                               *)
(***************************************************************************)
\* an AddMessage that keeps the new message alone
AddMessage_Replace(log, role, content) == <<[role |-> role, content |-> content]>>

\* AddMessage
AddMessage(log, role, content) == Append(log, [role |-> role, content |-> content])

\* a handleInput whose StartLoading keeps the accumulator of the turn before
handleInput_NoReset(input) ==
  /\ ~inputDisabled
  /\ turn < MaxTurns
  /\ Events < limit
  /\ LET t == turn + 1
         shown == AppendToChat(rev, chatHistory, "You", input)
     IN /\ turn' = t
        /\ messages' = AddMessage(messages, "user", input)
        /\ chatHistory' = IF HasSystemError(rev)
                          THEN AppendToChatPlain(shown, "Assistant", <<>>)
                          ELSE shown
        /\ loadingActive' = TRUE
        /\ inputDisabled' = TRUE
        /\ spin' = [spin EXCEPT ![t] = [pc |-> "wake", frameIdx |-> 0]]
        /\ net' = [net EXCEPT ![t] = [IdleNet EXCEPT !.pc = "start"]]
  /\ UNCHANGED <<rev, limit, markdownParser, assistantText, loadingSpinner, queue, nread, yielded, ref, frames>>

\* handleInput up to the start of the network goroutine: AddMessage,
\* AppendToChat, StartLoading (which starts the spinner goroutine) and, in
\* p000b and main.go, AppendToChatPlain("Assistant", "")
handleInput(input) ==
  /\ ~inputDisabled
  /\ turn < MaxTurns
  /\ Events < limit
  /\ LET t == turn + 1
         shown == AppendToChat(rev, chatHistory, "You", input)
     IN /\ turn' = t
        /\ messages' = AddMessage(messages, "user", input)
        /\ chatHistory' = IF HasSystemError(rev)
                          THEN AppendToChatPlain(shown, "Assistant", <<>>)
                          ELSE shown
        /\ loadingActive' = TRUE
        /\ inputDisabled' = TRUE
        /\ assistantText' = <<>>
        /\ spin' = [spin EXCEPT ![t] = [pc |-> "wake", frameIdx |-> 0]]
        /\ net' = [net EXCEPT ![t] = [IdleNet EXCEPT !.pc = "start"]]
  /\ UNCHANGED <<rev, limit, markdownParser, loadingSpinner, queue, nread, yielded, ref, frames>>

(***************************************************************************)
(* The spinner goroutine of StartLoading.                                  *)
(***************************************************************************)
\* the loop test "for ui.loadingActive", made without mu
SpinnerTest(t) ==
  /\ spin[t].pc = "wake"
  /\ loadingActive => frames < MaxFrames /\ Events < limit
  /\ spin' = [spin EXCEPT ![t].pc = IF loadingActive THEN "enqueue" ELSE "dead"]
  /\ frames' = IF loadingActive THEN frames + 1 ELSE frames
  /\ UNCHANGED <<rev, limit, markdownParser, messages, chatHistory, loadingSpinner, inputDisabled, loadingActive,
                 assistantText, queue, turn, net, nread, yielded, ref>>

\* QueueUpdateDraw of the frame, then the sleep
SpinnerEnqueue(t) ==
  /\ spin[t].pc = "enqueue"
  /\ queue' = Append(queue, Update("spin", t, <<Frames[spin[t].frameIdx + 1]>>, ""))
  /\ spin' = [spin EXCEPT ![t] = [pc |-> "wake",
                                   frameIdx |-> (spin[t].frameIdx + 1) % Len(Frames)]]
  /\ UNCHANGED <<rev, limit, markdownParser, messages, chatHistory, loadingSpinner, inputDisabled, loadingActive,
                 assistantText, turn, net, nread, yielded, ref, frames>>

(***************************************************************************)
(* The network goroutine of handleInput.                                   *)
(***************************************************************************)
\* handleStreamError: one queued update that stops the indicator and shows msg
handleStreamError(t, msg) == Append(queue, Update("error", t, msg, ""))

\* appendSystemError: one queued update that shows msg
appendSystemError(t, msg, why) == Append(queue, Update("notice", t, msg, why))

NetUnchanged ==
  UNCHANGED <<rev, limit, markdownParser, messages, chatHistory, loadingSpinner, turn, spin, frames>>

\* json.Marshal, http.NewRequest or client.Do fails
NetRequestFail(t) ==
  /\ net[t].pc = "start"
  /\ Events < limit
  /\ \E k \in {"marshal", "newreq", "do"} :
       queue' = handleStreamError(t, RequestErrorMsg(k))
  /\ net' = [net EXCEPT ![t].pc = "done", ![t].endedBy = "fail",
                        ![t].payload = messages]
  /\ NetUnchanged
  /\ UNCHANGED <<inputDisabled, loadingActive, assistantText, nread, yielded, ref>>

\* the response's status is not http.StatusOK: io.ReadAll of the body, which
\* may fail after a part of it, then handleStreamError
NetStatusError(t) ==
  /\ net[t].pc = "start"
  /\ Events < limit
  /\ \E s \in Statuses \ {StatusOK}, readOk \in BOOLEAN :
       LET data == IF readOk THEN ErrBody ELSE PartBody
       IN /\ queue' = handleStreamError(t, StatusErrorMsg(rev, s, readOk, data))
          /\ net' = [net EXCEPT ![t].pc = "done", ![t].endedBy = "status",
                                ![t].status = s, ![t].readOk = readOk,
                                ![t].payload = messages]
  /\ NetUnchanged
  /\ UNCHANGED <<inputDisabled, loadingActive, assistantText, nread, yielded, ref>>

\* the response's status is http.StatusOK: the SSE loop starts
NetStreamOpen(t) ==
  /\ net[t].pc = "start"
  /\ net' = [net EXCEPT ![t].pc = "loop", ![t].status = StatusOK,
                        ![t].payload = messages]
  /\ NetUnchanged
  /\ UNCHANGED <<inputDisabled, loadingActive, assistantText, queue, nread, yielded, ref>>

\* a loop that notes the sentinel and goes on reading
AfterSentinel_GoesOn(t) == [net EXCEPT ![t].endedBy = "sentinel"]

\* after the sentinel the loop is left
AfterSentinel(t) == [net EXCEPT ![t].pc = "final", ![t].endedBy = "sentinel"]

\* a malformed payload: logged in p000a and p001, a queued notice in the others
AfterMalformed(t) ==
  IF HasSystemError(rev)
  THEN appendSystemError(t, <<"JSON parse error: ", "err">>, "json")
  ELSE queue

\* ReadString returns a line and no error: one pass of the loop body
NetReadLine(t) ==
  /\ net[t].pc = "loop"
  /\ MayRead
  /\ \E line \in BodyLines :
       /\ nread' = [nread EXCEPT ![t] = @ + 1]
       /\ ref' = [ref EXCEPT ![t] = RefStep(@, line)]
       /\ \/ /\ IsSkipped(line) \/ ~IsData(line)
             /\ UNCHANGED <<net, queue, assistantText, yielded>>
          \/ /\ IsSentinel(line)
             /\ net' = AfterSentinel(t)
             /\ UNCHANGED <<queue, assistantText, yielded>>
          \/ /\ IsMalformed(line)
             /\ queue' = AfterMalformed(t)
             /\ UNCHANGED <<net, assistantText, yielded>>
          \/ /\ IsData(line) /\ ~IsSentinel(line) /\ ~IsMalformed(line) /\ ~HasDelta(line)
             /\ UNCHANGED <<net, queue, assistantText, yielded>>
          \/ /\ HasDelta(line)
             /\ assistantText' = assistantText \o DeltaOf(line)
             /\ yielded' = [yielded EXCEPT ![t] = Append(@, DeltaOf(line))]
             /\ queue' = Append(queue, Update("partial", t, DeltaOf(line),
                                       IF net[t].started THEN "" ELSE "first"))
             /\ net' = [net EXCEPT ![t].started = TRUE]
  /\ NetUnchanged
  /\ UNCHANGED <<inputDisabled, loadingActive>>

\* a loop that takes io.EOF for a failure of the stream
NetReadEOF_AsFailure(t) ==
  /\ net[t].pc = "loop"
  /\ queue' = handleStreamError(t, <<"Stream read error: ", "EOF">>)
  /\ net' = [net EXCEPT ![t].pc = "done", ![t].endedBy = "eof"]
  /\ NetUnchanged
  /\ UNCHANGED <<inputDisabled, loadingActive, assistantText, nread, yielded, ref>>

\* ReadString returns io.EOF, with the bytes of a last line that has no
\* newline, or with none: the loop is left and what was returned is not looked at
NetReadEOF(t) ==
  /\ net[t].pc = "loop"
  /\ \E line \in BodyLines \cup {NoLine} :
       /\ line # NoLine => MayRead
       /\ nread' = [nread EXCEPT ![t] = IF line = NoLine THEN @ ELSE @ + 1]
       /\ ref' = [ref EXCEPT ![t] = IF line = NoLine THEN @ ELSE RefStep(@, line)]
  /\ net' = [net EXCEPT ![t].pc = "final", ![t].endedBy = "eof"]
  /\ NetUnchanged
  /\ UNCHANGED <<inputDisabled, loadingActive, assistantText, queue, yielded>>

\* ReadString returns another error: logged in p000a and p001, a queued notice
\* in the others; the loop is left
NetReadError(t) ==
  /\ net[t].pc = "loop"
  /\ Events < limit
  /\ queue' = IF HasSystemError(rev)
              THEN appendSystemError(t, <<"Stream read error: ", "err">>, "read")
              ELSE queue
  /\ net' = [net EXCEPT ![t].pc = "final", ![t].endedBy = "readerr"]
  /\ NetUnchanged
  /\ UNCHANGED <<inputDisabled, loadingActive, assistantText, nread, yielded, ref>>

\* after the loop, p000a and p001: the final update is queued
NetQueueFinal(t) ==
  /\ net[t].pc = "final"
  /\ ~HasSystemError(rev)
  /\ queue' = Append(queue, Update("final", t, <<>>, ""))
  /\ net' = [net EXCEPT ![t].pc = "done"]
  /\ NetUnchanged
  /\ UNCHANGED <<inputDisabled, loadingActive, assistantText, nread, yielded, ref>>

\* after the loop, p000b and main.go with a non-empty finalResponse: the final
\* update is queued with the text read here
NetQueueFinalText(t) ==
  /\ net[t].pc = "final"
  /\ HasSystemError(rev)
  /\ assistantText # <<>>
  /\ queue' = Append(queue, Update("final", t, assistantText, ""))
  /\ net' = [net EXCEPT ![t].pc = "done"]
  /\ NetUnchanged
  /\ UNCHANGED <<inputDisabled, loadingActive, assistantText, nread, yielded, ref>>

\* a StopLoading of the empty turn that clears the flag and leaves the input field disabled
NetStopEmpty_FlagOnly(t) ==
  /\ net[t].pc = "final"
  /\ HasSystemError(rev)
  /\ assistantText = <<>>
  /\ loadingActive' = FALSE
  /\ net' = [net EXCEPT ![t].pc = IF rev = "main" THEN "notice" ELSE "done",
                        ![t].stopped = TRUE]
  /\ NetUnchanged
  /\ UNCHANGED <<inputDisabled, assistantText, queue, nread, yielded, ref>>

\* after the loop, p000b and main.go with an empty finalResponse: StopLoading
\* is called on this goroutine; main.go then goes on to appendSystemError
NetStopEmpty(t) ==
  /\ net[t].pc = "final"
  /\ HasSystemError(rev)
  /\ assistantText = <<>>
  /\ loadingActive' = FALSE
  /\ inputDisabled' = FALSE
  /\ net' = [net EXCEPT ![t].pc = IF rev = "main" THEN "notice" ELSE "done",
                        ![t].stopped = TRUE]
  /\ NetUnchanged
  /\ UNCHANGED <<assistantText, queue, nread, yielded, ref>>

\* main.go: appendSystemError("Received empty response from assistant")
NetEmptyNotice(t) ==
  /\ net[t].pc = "notice"
  /\ queue' = appendSystemError(t, EmptyNotice(rev), "empty")
  /\ net' = [net EXCEPT ![t].pc = "done"]
  /\ NetUnchanged
  /\ UNCHANGED <<inputDisabled, loadingActive, assistantText, nread, yielded, ref>>

(***************************************************************************)
(* The display goroutine: the queued updates, one at a time, in order.     *)
(***************************************************************************)
DisplayUnchanged == UNCHANGED <<rev, limit, markdownParser, turn, spin, nread, yielded, ref, frames>>

\* the update of a spinner frame
ApplySpin(u) ==
  /\ u.kind = "spin"
  /\ loadingSpinner' = u.text
  /\ UNCHANGED <<messages, chatHistory, inputDisabled, loadingActive, assistantText, net>>

\* the update of one delta
ApplyPartial(u) ==
  /\ u.kind = "partial"
  /\ IF HasSystemError(rev)
     THEN /\ chatHistory' = PartialUpdate(rev, chatHistory, u.text, assistantText,
                                          net[u.t].isFirst)
          /\ net' = [net EXCEPT ![u.t].isFirst = FALSE]
     ELSE /\ chatHistory' = AppendPartialAssistant(rev, chatHistory, u.text, u.why = "first")
          /\ UNCHANGED <<net>>
  /\ UNCHANGED <<messages, loadingSpinner, inputDisabled, loadingActive, assistantText>>

\* the final update of p000a and p001, which reads the accumulator here
FinalLog(r, log, text) ==
  IF r = "p001" /\ text # <<>> THEN AddMessage(log, "assistant", text) ELSE log

FinalChat(r, chat, text, started) ==
  IF (IF r = "p000a" THEN TrimSpace(text) ELSE text) # <<>>
  THEN addCompletedAssistantMessage(r, chat, text)
  ELSE IF ~started
  THEN AppendToChat(r, chat, "System", EmptyNotice(r))
         \o (IF r = "p000a" THEN <<NL>> ELSE <<>>)
  ELSE chat

ApplyFinal(u) ==
  /\ u.kind = "final"
  /\ ~HasSystemError(rev)
  /\ messages' = FinalLog(rev, messages, assistantText)
  /\ chatHistory' = FinalChat(rev, chatHistory, assistantText, net[u.t].started)
  /\ loadingActive' = FALSE
  /\ inputDisabled' = FALSE
  /\ net' = [net EXCEPT ![u.t].stopped = TRUE]
  /\ UNCHANGED <<loadingSpinner, assistantText>>

\* the final update of p000b and main.go: AddMessage of the text read by the
\* network goroutine, StopLoading, finalizeAssistantMessage
ApplyFinalText(u) ==
  /\ u.kind = "final"
  /\ HasSystemError(rev)
  /\ messages' = AddMessage(messages, "assistant", u.text)
  /\ chatHistory' = finalizeAssistantMessage(rev, chatHistory, assistantText)
  /\ loadingActive' = FALSE
  /\ inputDisabled' = FALSE
  /\ net' = [net EXCEPT ![u.t].stopped = TRUE]
  /\ UNCHANGED <<loadingSpinner, assistantText>>

\* an update of handleStreamError that shows the line and leaves the indicator on
ApplyError_NoStop(u) ==
  /\ u.kind = "error"
  /\ chatHistory' = AppendToChat(rev, chatHistory, "System", StreamErrorText(rev, u.text))
  /\ UNCHANGED <<messages, loadingSpinner, assistantText, loadingActive, inputDisabled, net>>

\* the update of handleStreamError: StopLoading, then the System line
ApplyError(u) ==
  /\ u.kind = "error"
  /\ chatHistory' = AppendToChat(rev, chatHistory, "System", StreamErrorText(rev, u.text))
  /\ loadingActive' = FALSE
  /\ inputDisabled' = FALSE
  /\ net' = [net EXCEPT ![u.t].stopped = TRUE]
  /\ UNCHANGED <<messages, loadingSpinner, assistantText>>

\* the update of appendSystemError: AppendToChat("System", msg) in p000b,
\* AppendToChatPlain("System", msg) in main.go
ApplyNotice(u) ==
  /\ u.kind = "notice"
  /\ chatHistory' = IF rev = "main"
                    THEN AppendToChatPlain(chatHistory, "System", u.text)
                    ELSE AppendToChat(rev, chatHistory, "System", u.text)
  /\ UNCHANGED <<messages, loadingSpinner, inputDisabled, loadingActive, assistantText,
                 net>>

\* a display goroutine that takes the update queued last
DisplayRun_Last ==
  /\ queue # <<>>
  /\ queue' = SubSeq(queue, 1, Len(queue) - 1)
  /\ LET u == queue[Len(queue)]
     IN \/ ApplySpin(u)
        \/ ApplyPartial(u)
        \/ ApplyFinal(u)
        \/ ApplyFinalText(u)
        \/ ApplyError(u)
        \/ ApplyNotice(u)
  /\ DisplayUnchanged

\* the display goroutine takes the next queued update and runs it
DisplayRun ==
  /\ queue # <<>>
  /\ queue' = Tail(queue)
  /\ LET u == Head(queue)
     IN \/ ApplySpin(u)
        \/ ApplyPartial(u)
        \/ ApplyFinal(u)
        \/ ApplyFinalText(u)
        \/ ApplyError(u)
        \/ ApplyNotice(u)
  /\ DisplayUnchanged

NetStep(t) ==
  \/ NetRequestFail(t)
  \/ NetStatusError(t)
  \/ NetStreamOpen(t)
  \/ NetReadLine(t)
  \/ NetReadEOF(t)
  \/ NetReadError(t)
  \/ NetQueueFinal(t)
  \/ NetQueueFinalText(t)
  \/ NetStopEmpty(t)
  \/ NetEmptyNotice(t)

SpinnerStep(t) == SpinnerTest(t) \/ SpinnerEnqueue(t)

Next ==
  \/ \E input \in Inputs : handleInput(input)
  \/ \E t \in Turns : NetStep(t)
  \/ \E t \in Turns : SpinnerStep(t)
  \/ DisplayRun

Spec == Init /\ [][Next]_vars

\* a step that takes the head of the queue: the steps of DisplayRun and no other
DisplayServes == queue # <<>> /\ queue' = Tail(queue)

\* the network operations return, so every network goroutine that can take a
\* step does, and the display goroutine serves its queue; the behaviours are
\* those of MaxFairEvents events
FairSpec ==
  /\ Start(MaxFairEvents)
  /\ markdownParser = NewMarkdownParser
  /\ [][Next]_vars
  /\ \A t \in Turns : WF_vars(NetStep(t))
  /\ WF_queue(DisplayServes)

(***************************************************************************)
(* The renderer on its own: the parser of a program that has one is given  *)
(* a text, by RenderMarkdown or (p001) by RenderPartial.                   *)
(***************************************************************************)
\* the characters of the texts rendered
RenderChars == {"a", "*", Backslash, " ", NL}

\* every text over RenderChars of at most MaxText characters
CharTexts == UNION {[1..n -> RenderChars] : n \in 0..MaxText}

\* the characters of the lines given to the inline pass: letters, the markers and
\* a character that is not printable
InlineChars == {"a", "b", "*", "_", Backtick, "\t"}

\* every line over InlineChars of at most MaxInline characters
InlineTexts == UNION {[1..n -> InlineChars] : n \in 0..MaxInline}

\* lines of every kind the block pass tells apart
RenderLineSet ==
  {<<"|", "x", "|", "y">>, <<"|", "z">>, <<"-", " ", "a">>, <<"*", " ", "b">>,
   <<">", " ", "c">>, <<>>, <<" ">>, <<"d">>, <<Backtick, "e">>, <<"*", "f", "*">>}

\* every text of at most MaxRenderLines lines of RenderLineSet
LineTexts ==
  UNION {{Join(ls, NL) : ls \in [1..n -> RenderLineSet]} : n \in 1..MaxRenderLines}

\* the texts rendered
RenderTexts == CharTexts \cup InlineTexts \cup LineTexts

\* the texts of the later calls on the same parser
LaterTexts == {<<Backtick, "e">>, <<"*", "f", "*">>, <<">", " ", "c">>}

RenderInit ==
  /\ Start(0)
  /\ HasRenderer(rev)
  /\ markdownParser \in [text : RenderTexts, call : {"none"}, output : {<<>>},
                          parser : {FreshParser}, before : {FreshParser}]

RenderUnchanged ==
  UNCHANGED <<rev, limit, messages, chatHistory, loadingSpinner, inputDisabled,
              loadingActive, assistantText, queue, turn, net, spin, nread, yielded, ref,
              frames>>

\* a call of the parser on text: before is the parser as the earlier calls left it
RenderCall(text, partial) ==
  LET res == renderOn(rev, markdownParser.parser, text, partial)
  IN markdownParser' = [text |-> text,
                        call |-> IF partial THEN "partial" ELSE "full",
                        output |-> res.output,
                        parser |-> res.parser,
                        before |-> markdownParser.parser]

\* ui.markdownParser.RenderMarkdown(text)
RenderMarkdownCall ==
  /\ \E text \in {markdownParser.text} \cup LaterTexts : RenderCall(text, FALSE)
  /\ RenderUnchanged

\* ui.markdownParser.RenderPartial(text), of p001
RenderPartialCall ==
  /\ rev = "p001"
  /\ \E text \in {markdownParser.text} \cup LaterTexts : RenderCall(text, TRUE)
  /\ RenderUnchanged

RenderNext == RenderMarkdownCall \/ RenderPartialCall

RenderSpec == RenderInit /\ [][RenderNext]_vars

(***************************************************************************)
(* AppendToChat on its own: a text is written to the chat view as a user   *)
(* message or as an assistant message.                                     *)
(***************************************************************************)
ChatInit ==
  /\ Start(0)
  /\ markdownParser \in [text : RenderTexts \ {<<>>}, call : {"none"}, output : {<<>>},
                          parser : {FreshParser}, before : {FreshParser}]

\* ui.AppendToChat(role, text): the assistant's text goes through RenderMarkdown
\* where there is a parser
AppendToChatCall(role) ==
  /\ markdownParser.call = "none"
  /\ chatHistory' = AppendToChat(rev, chatHistory, role, markdownParser.text)
  /\ markdownParser' =
       IF role = "Assistant" /\ HasRenderer(rev)
       THEN LET res == renderOn(rev, markdownParser.parser, markdownParser.text, FALSE)
            IN [markdownParser EXCEPT !.call = role, !.output = res.output,
                                      !.parser = res.parser]
       ELSE [markdownParser EXCEPT !.call = role]
  /\ UNCHANGED <<rev, limit, messages, loadingSpinner, inputDisabled, loadingActive,
                 assistantText, queue, turn, net, spin, nread, yielded, ref, frames>>

ChatNext == AppendToChatCall("You") \/ AppendToChatCall("Assistant")

ChatSpec == ChatInit /\ [][ChatNext]_vars

(***************************************************************************)
(* What the properties below speak of.                                     *)
(***************************************************************************)
\* s holds sub as a contiguous part
Contains(s, sub) ==
  \E i \in 0..(Len(s) - Len(sub)) : SubSeq(s, i + 1, i + Len(sub)) = sub

\* the queued updates of turn t, the spinner's frames aside, not yet applied
PendingOf(t) == {i \in 1..Len(queue) : queue[i].t = t /\ queue[i].kind # "spin"}

\* the network goroutine of turn t returned and all its updates were applied
Finished(t) == net[t].pc = "done" /\ PendingOf(t) = {}

\* the positions in the log of the assistant messages that follow the t-th
\* user message and precede the next one
UsersUpTo(i) == Cardinality({j \in 1..i : messages[j].role = "user"})
RepliesOf(t) ==
  {i \in 1..Len(messages) : messages[i].role = "assistant" /\ UsersUpTo(i) = t}

\* the partial updates of turn t in a queue
PartialsOf(t, q) == {i \in 1..Len(q) : q[i].t = t /\ q[i].kind = "partial"}

(***************************************************************************)
(* C1: every turn that ends with non-empty accumulated text appends        *)
(* exactly one assistant message to the conversation log, and its content  *)
(* is the concatenation, in order, of the deltas yielded in the turn.      *)
(***************************************************************************)
C1_OneAssistantMessage ==
  \A t \in Turns :
    (Finished(t) /\ Concat(yielded[t]) # <<>>)
      => /\ Cardinality(RepliesOf(t)) = 1
         /\ \A i \in RepliesOf(t) : messages[i].content = Concat(yielded[t])

(***************************************************************************)
(* C2: for every sequence of body lines the deltas the SSE loop yields are *)
(* the reference result of the lines.                                      *)
(***************************************************************************)
C2_YieldsAreReference == \A t \in Turns : yielded[t] = ref[t].out

(***************************************************************************)
(* C3: once the sentinel line was read, the turn reads and parses no later *)
(* line, accumulates no later delta and queues no later partial render.    *)
(***************************************************************************)
C3_StopsAtSentinel ==
  [][\A t \in Turns :
       net[t].endedBy = "sentinel"
         => /\ nread'[t] = nread[t]
            /\ ref'[t] = ref[t]
            /\ yielded'[t] = yielded[t]
            /\ Cardinality(PartialsOf(t, queue')) <= Cardinality(PartialsOf(t, queue))]_vars

\* a turn that yielded a delta, read the sentinel and was finalized
C3_Witness ==
  \E t \in Turns :
    net[t].endedBy = "sentinel" /\ yielded[t] # <<>> /\ ref[t].done /\ Finished(t)

(***************************************************************************)
(* C4: a data line with a malformed payload is skipped, and no error or    *)
(* notice from it reaches the turn controller or the display: no update is *)
(* queued for it and the chat view never shows a parse error.              *)
(***************************************************************************)
C4_MalformedIsSilent ==
  /\ \A i \in 1..Len(queue) : queue[i].why # "json"
  /\ ~Contains(chatHistory, <<"JSON parse error: ">>)

(***************************************************************************)
(* C5: a response whose status is not success never enters the SSE loop:   *)
(* no line is read, no delta accumulated, no assistant message appended,   *)
(* and the update that ends the turn writes a notice that holds the body   *)
(* of the response verbatim.  As stated, for every such response; as it    *)
(* holds, for the responses whose body io.ReadAll read to its end.         *)
(***************************************************************************)
\* the head of the queue is the error update of turn t, and this step runs it
RunsErrorOf(t) ==
  /\ queue # <<>>
  /\ Head(queue).kind = "error" /\ Head(queue).t = t
  /\ queue' = Tail(queue)

\* what a step that appends to the chat view wrote
Written == SubSeq(chatHistory', Len(chatHistory) + 1, Len(chatHistory'))

C5_NoStream(t) ==
  net[t].endedBy = "status" => nread[t] = 0 /\ yielded[t] = <<>> /\ RepliesOf(t) = {}

C6_EofLikeSentinel ==
  [][\A t \in Turns :
       (net[t].pc = "loop" /\ net'[t].endedBy = "eof")
         => /\ net' = [AfterSentinel(t) EXCEPT ![t].endedBy = "eof"]
            /\ UNCHANGED <<messages, chatHistory, loadingSpinner, inputDisabled,
                           loadingActive, assistantText, queue, yielded>>]_vars

\* a turn that yielded a delta, met io.EOF with no sentinel and was finalized
C6_Witness ==
  \E t \in Turns :
    net[t].endedBy = "eof" /\ yielded[t] # <<>> /\ ~ref[t].done /\ Finished(t)

(***************************************************************************)
(* C7: every access to the shared state is made while mu is held: the      *)
(* appends to the accumulator by the network goroutine, the snapshots of   *)
(* it for a partial render, the loop test of the spinner goroutine.        *)
(***************************************************************************)
\* mu is locked in StartLoading and in StopLoading and nowhere else: the steps
\* that run one of the two
StartLoadingStep == turn' = turn + 1
StopLoadingStep == \E t \in Turns : ~net[t].stopped /\ net'[t].stopped

\* assistantText.WriteString by the network goroutine
AppendStep == \E t \in Turns : yielded'[t] # yielded[t]
\* the test of "for ui.loadingActive"
LoopTestStep == \E t \in Turns : spin[t].pc = "wake" /\ spin'[t].pc # "wake"
\* assistantText.String() in appendDelta
SnapshotStep ==
  /\ HasSystemError(rev)
  /\ queue # <<>> /\ Head(queue).kind = "partial" /\ queue' = Tail(queue)

\* C7: a step that appends to the accumulator, snapshots it or tests the flag
\* is a step of StartLoading or StopLoading, which hold mu
C7_SharedAccessUnderMu ==
  [][(AppendStep \/ LoopTestStep \/ SnapshotStep)
       => (StartLoadingStep \/ StopLoadingStep)]_vars

(***************************************************************************)
(* C8: a stream that ends, at the sentinel or at end-of-stream, with       *)
(* nothing accumulated leaves a system notice on the display and no        *)
(* assistant message in the conversation log.                              *)
(***************************************************************************)
C8_EmptyResponseNotice ==
  \A t \in Turns :
    (Finished(t) /\ turn = t /\ net[t].endedBy \in {"sentinel", "eof"}
       /\ yielded[t] = <<>>)
      => Contains(chatHistory, EmptyNotice(rev)) /\ RepliesOf(t) = {}

(***************************************************************************)
(* C9: every started turn eventually returns to Idle, whatever its         *)
(* outcome: StopLoading is run for it, the loading-active flag is false    *)
(* and the input field is enabled again (under FairSpec).                  *)
(***************************************************************************)
C9_ReturnsToIdle ==
  \A t \in Turns :
    (net[t].pc = "start") ~> (net[t].stopped /\ ~loadingActive /\ ~inputDisabled)

\* a turn whose stream broke after a delta, back in Idle
C9_Witness ==
  \E t \in Turns :
    /\ net[t].endedBy = "readerr" /\ yielded[t] # <<>>
    /\ net[t].stopped /\ ~loadingActive /\ ~inputDisabled

(***************************************************************************)
(* C10: once StopLoading has cleared the flag, the spinner goroutine of    *)
(* that turn enqueues no further frame and ends at its next wake.          *)
(***************************************************************************)
C10_NoFrameAfterStop ==
  [][\A t \in Turns :
       net[t].stopped
         => /\ ~(spin[t].pc = "enqueue" /\ spin'[t].pc = "wake")
            /\ (spin[t].pc = "wake" /\ spin'[t].pc # "wake") => spin'[t].pc = "dead"]_vars

(***************************************************************************)
(* C11: after any sequence of turns at most one spinner goroutine is in    *)
(* its loop: the goroutine of a turn that was stopped is not kept running  *)
(* by the flag being set again for the next turn.                          *)
(***************************************************************************)
\* once a later turn was started, the goroutine of an earlier turn that makes
\* its loop test ends there
C11_OneIndicator ==
  [][\A t \in Turns :
       (turn > t /\ spin[t].pc = "wake" /\ spin'[t].pc # "wake")
         => spin'[t].pc = "dead"]_vars

(***************************************************************************)
(* C12: within one turn the display updates are applied in submission      *)
(* order: the partial renders still queued are the last deltas yielded, in *)
(* order, so delta k is applied before delta k+1; the final update is      *)
(* queued behind every partial render of its turn, when the network        *)
(* goroutine queues nothing more.                                          *)
(***************************************************************************)
\* the deltas of the partial updates of turn t still queued, in queue order
QueuedDeltas(t) ==
  LET IsPartial(u) == u.t = t /\ u.kind = "partial"
      ps == SelectSeq(queue, IsPartial)
  IN [i \in 1..Len(ps) |-> ps[i].text]

\* the last n elements of s
Last(s, n) == SubSeq(s, Len(s) - n + 1, Len(s))

FinalsOf(t) == {i \in 1..Len(queue) : queue[i].t = t /\ queue[i].kind = "final"}

C12_SubmissionOrder ==
  \A t \in Turns :
    /\ Len(QueuedDeltas(t)) <= Len(yielded[t])
    /\ QueuedDeltas(t) = Last(yielded[t], Len(QueuedDeltas(t)))
    /\ \A i \in FinalsOf(t) :
         /\ net[t].pc = "done"
         /\ \A j \in PartialsOf(t, queue) : j < i

\* two deltas and the final update of a turn queued, none applied yet
C12_Witness ==
  \E t \in Turns :
    /\ Len(yielded[t]) = 2 /\ yielded[t][1] # yielded[t][2]
    /\ Len(QueuedDeltas(t)) = 2
    /\ FinalsOf(t) # {}

(***************************************************************************)
(* C13: every change of the visible state (the text of the chat view, the  *)
(* text of the spinner view, the disabled state of the input field) is     *)
(* made by the display goroutine, in its input handler or in an update     *)
(* taken from the queue; never by a network or spinner goroutine.          *)
(***************************************************************************)
\* a step of the display goroutine: handleInput, or an update taken from the queue
DisplayStep == turn' = turn + 1 \/ DisplayServes

C13_WidgetsByDisplayOnly ==
  [][(chatHistory' # chatHistory \/ loadingSpinner' # loadingSpinner
        \/ inputDisabled' # inputDisabled)
       => DisplayStep]_vars

(***************************************************************************)
(* C14: the conversation log is append-only over successful, empty and     *)
(* failed turns: the log of every state has the log of the state before    *)
(* as a prefix.                                                            *)
(***************************************************************************)
C14_LogAppendOnly ==
  [][/\ Len(messages') >= Len(messages)
     /\ SubSeq(messages', 1, Len(messages)) = messages]_vars

\* a turn with a reply in the log, then a turn whose request failed, its
\* notice shown: the three messages are in place
C14_Witness ==
  /\ turn = 2 /\ net[2].endedBy = "fail" /\ Finished(2)
  /\ Len(messages) = 3
  /\ messages[2].role = "assistant" /\ messages[3].role = "user"

(***************************************************************************)
(* C15: on a submission, before the network goroutine takes a step, the    *)
(* user message is in the log and on the display, the accumulator is empty *)
(* and the indicator is started; the payload the network goroutine then    *)
(* sends is the log of that moment: it ends with that user message and     *)
(* holds the assistant reply of every earlier turn that ended with text.   *)
(***************************************************************************)
\* turn u ended at the sentinel or at end-of-stream with text accumulated
Successful(u) ==
  net[u].endedBy \in {"sentinel", "eof"} /\ Concat(yielded[u]) # <<>>

C15_Submitted(t) ==
  /\ messages # <<>> /\ messages[Len(messages)].role = "user"
  /\ Contains(chatHistory, <<"You:", "[-]", " ", "[white]">> \o messages[Len(messages)].content)
  /\ assistantText = <<>>
  /\ loadingActive /\ inputDisabled /\ spin[t].pc # "idle"

C15_Payload(t) ==
  LET p == net[t].payload
  IN /\ p # <<>> /\ p[Len(p)].role = "user"
     /\ Cardinality({i \in 1..Len(p) : p[i].role = "user"}) = t
     /\ p = SubSeq(messages, 1, Len(p))
     /\ \A u \in 1..(t - 1) :
          Successful(u)
            => \E i \in 1..Len(p) :
                 p[i] = [role |-> "assistant", content |-> Concat(yielded[u])]

C15_SubmissionAndPayload ==
  \A t \in Turns :
    /\ net[t].pc = "start" => C15_Submitted(t)
    /\ net[t].pc \notin {"idle", "start"} => C15_Payload(t)

(***************************************************************************)
(* C16: an I/O error while reading the stream, other than end-of-stream,   *)
(* ends the turn with an error notice on the display, under the System     *)
(* label.                                                                  *)
(***************************************************************************)
C16_ReadErrorNotice ==
  \A t \in Turns :
    (Finished(t) /\ turn = t /\ net[t].endedBy = "readerr")
      => Contains(GetText(chatHistory), <<"System:", " ", "Stream read error: ">>)

(***************************************************************************)
(* C17: when the read fails after at least one delta, the text accumulated *)
(* so far is kept: it is the last message of the log, as an assistant      *)
(* message, and the chat view shows its full rendering under the assistant *)
(* label (in the revisions that have a renderer), as on normal completion. *)
(***************************************************************************)
C17_Kept(t) ==
  /\ messages # <<>>
  /\ messages[Len(messages)] = [role |-> "assistant", content |-> Concat(yielded[t])]
  /\ HasRenderer(rev)
       => Contains(chatHistory,
            <<"Assistant:", "[-]", " ">> \o RenderMarkdown(rev, Concat(yielded[t])))

C17_ReadErrorKeepsContent ==
  \A t \in Turns :
    (Finished(t) /\ turn = t /\ net[t].endedBy = "readerr" /\ Concat(yielded[t]) # <<>>)
      => C17_Kept(t)

(***************************************************************************)
(* What the properties of the renderer speak of.                           *)
(***************************************************************************)
\* the lines of the text given to the parser
TextLines == Split(markdownParser.text, NL)

\* the lines of the output, every one of which the renderer ends with a newline
OutputLines == DropLast(Split(markdownParser.output, NL))

IsEmptyLine(l) == TrimSpace(l) = <<>>

\* the empty lines lie between non-empty lines
EmptyRunsInside ==
  /\ ~IsEmptyLine(TextLines[1])
  /\ ~IsEmptyLine(TextLines[Len(TextLines)])

\* the first lines of the runs of empty lines, and those of the runs of two or more
RunStarts ==
  {i \in 2..Len(TextLines) : IsEmptyLine(TextLines[i]) /\ ~IsEmptyLine(TextLines[i - 1])}
LongRunStarts == {i \in RunStarts : IsEmptyLine(TextLines[i + 1])}

\* the run that starts at i has exactly two lines
RunOfTwo(i) == i \in LongRunStarts /\ ~IsEmptyLine(TextLines[i + 2])

BlankOutputLines == {i \in 1..Len(OutputLines) : OutputLines[i] = <<>>}

(***************************************************************************)
(* C18: in full-render mode, a run of two or more empty or whitespace-only *)
(* lines between two non-empty lines gives exactly one blank output line:  *)
(* when every run of empty lines lies between non-empty lines, the output  *)
(* has as many blank lines as the text has runs.                           *)
(***************************************************************************)
C18_FullCollapsesToOne ==
  (markdownParser.call = "full" /\ EmptyRunsInside /\ LongRunStarts # {})
    => Cardinality(BlankOutputLines) = Cardinality(RunStarts)

(***************************************************************************)
(* C19: in partial-render mode, two consecutive empty or whitespace-only   *)
(* lines between two non-empty lines give no blank output line: when every *)
(* run of empty lines is such a pair, the output has no blank line.        *)
(***************************************************************************)
C19_PartialCollapsesToZero ==
  (/\ markdownParser.call = "partial"
   /\ EmptyRunsInside
   /\ RunStarts # {}
   /\ \A i \in RunStarts : RunOfTwo(i))
    => BlankOutputLines = {}

(***************************************************************************)
(* C20: in the inline pass a character that follows an unescaped backslash *)
(* is in the output as it is and toggles no span, and the later unescaped  *)
(* markers of the line still toggle.  For a text of one ordinary line:     *)
(* the characters of the output, the style tags and the backslashes left   *)
(* aside, are the characters of the line that are escaped or are no        *)
(* marker; and a line all of whose markers are escaped has no style tag.   *)
(***************************************************************************)
\* the character at i follows a backslash that is not itself escaped
RECURSIVE Escaped(_, _)
Escaped(line, i) == i > 1 /\ line[i - 1] = Backslash /\ ~Escaped(line, i - 1)

Markers == {"*", "_", Backtick}

\* the characters the line shows: no backslash, no unescaped marker
RECURSIVE Shown(_, _)
Shown(line, i) ==
  IF i > Len(line) THEN <<>>
  ELSE (IF line[i] # Backslash /\ (line[i] \notin Markers \/ Escaped(line, i))
        THEN <<line[i]>> ELSE <<>>) \o Shown(line, i + 1)

\* the text is one line that the block pass hands to the inline pass whole
OneOrdinaryLine ==
  LET line == markdownParser.text
  IN /\ Len(TextLines) = 1
     /\ ~IsEmptyLine(line)
     /\ \A pre \in {<<"*", " ">>, <<"-", " ">>, <<">", " ">>, <<"|">>,
                      <<Backtick, Backtick, Backtick>>} : ~HasPrefix(TrimSpace(line), pre)

C20_EscapedIsLiteral ==
  (/\ markdownParser.call # "none"
   /\ OneOrdinaryLine
   /\ \E i \in 1..Len(markdownParser.text) : markdownParser.text[i] = Backslash)
    => LET line == markdownParser.text
           out == markdownParser.output
       IN /\ RemoveAll(out, Tags \cup {Backslash, NL}) = Shown(line, 1)
          /\ (\A i \in 1..Len(line) : line[i] \in Markers => Escaped(line, i))
               => \A j \in 1..Len(out) : out[j] \notin Tags

(***************************************************************************)
(* C21: in a block of lines that start with a pipe, every line whose       *)
(* previous line starts with a pipe too is an output line of cells, each   *)
(* non-empty trimmed cell in a bold run followed by a space; the first     *)
(* line of the block is rendered as a paragraph line, so its text is in    *)
(* the output.                                                             *)
(***************************************************************************)
IsPipeLine(l) == HasPrefix(TrimSpace(l), <<"|">>)

C21_CellsOf(i) == TableCells(Split(TrimSpace(TextLines[i]), "|"))

C21_TableRows ==
  markdownParser.call # "none"
    => \A i \in 1..Len(TextLines) :
         IsPipeLine(TextLines[i])
           => IF i > 1 /\ IsPipeLine(TextLines[i - 1])
              THEN \E j \in 1..Len(OutputLines) : OutputLines[j] = C21_CellsOf(i)
              ELSE Contains(GetText(markdownParser.output), TrimSpace(TextLines[i]))

(***************************************************************************)
(* C22: the full renderer is a pure function of its text: whatever renders *)
(* the parser has performed before, a full render returns what a full      *)
(* render of the same text returns on a parser that has rendered nothing,  *)
(* so any two full renders of a text return the same bytes.                *)
(***************************************************************************)
C22_FullRenderIsPure ==
  markdownParser.call = "full"
    => markdownParser.output = RenderMarkdown(rev, markdownParser.text)

\* a full render of a line with markers on a parser that an earlier render left
\* inside a code span
C22_Witness ==
  /\ markdownParser.call = "full"
  /\ markdownParser.before.inCode
  /\ markdownParser.text = <<"*", "f", "*">>

(***************************************************************************)
(* C23: every partial render made while streaming is a render of the whole *)
(* text accumulated so far: once the first k deltas of the turn have been  *)
(* shown, and until the turn's final update, the chat view holds the       *)
(* partial rendering of d1..dk.                                            *)
(***************************************************************************)
\* the deltas of turn t whose updates the display has applied
DeltasShown(t) == SubSeq(yielded[t], 1, Len(yielded[t]) - Len(QueuedDeltas(t)))

C23_PartialOfWholeText ==
  \A t \in Turns :
    (rev = "p001" /\ turn = t /\ DeltasShown(t) # <<>> /\ ~net[t].stopped)
      => Contains(chatHistory, RenderPartial(rev, Concat(DeltasShown(t))))

(***************************************************************************)
(* C24: a turn has one assistant region on the display, set up by its      *)
(* first delta and replaced in place by every later delta and by the final *)
(* render.  Whenever every delta read so far has been shown, in turns that *)
(* put no notice on the display, the chat view has one Assistant label for *)
(* each turn, and every letter of the replies as often as *)
(* the replies have it: no earlier partial copy is left behind.            *)
(***************************************************************************)
Count(c, s) == Cardinality({i \in 1..Len(s) : s[i] = c})

\* the occurrences of c in the texts accumulated in the turns 1..t
RECURSIVE CountInReplies(_, _)
CountInReplies(c, t) ==
  IF t = 0 THEN 0 ELSE Count(c, Concat(yielded[t])) + CountInReplies(c, t - 1)

\* every turn up to t had a delta, none has failed, no notice is on the display
C24_NoNotice(t) ==
  /\ \A u \in 1..t : yielded[u] # <<>> /\ net[u].endedBy \in {"none", "sentinel", "eof"}
  /\ \A i \in 1..Len(chatHistory) :
       chatHistory[i] \notin {"JSON parse error: ", "Stream read error: "}

C24_OneAssistantRegion ==
  \A t \in Turns :
    (turn = t /\ QueuedDeltas(t) = <<>> /\ C24_NoNotice(t))
      => /\ Count("Assistant:", chatHistory) = t
         /\ \A c \in {"a", "b"} : Count(c, chatHistory) = CountInReplies(c, t)

(***************************************************************************)
(* C25: every maximal run of consecutive list lines has the bullet prefix  *)
(* in the output exactly once, on the first line of the run, and every     *)
(* maximal run of consecutive quote lines has the quote bar exactly once,  *)
(* on the first line of the run.  For texts of list, quote and paragraph   *)
(* lines, each of which gives one output line: an output line starts with  *)
(* the bullet exactly when its line starts a run of list lines, and with   *)
(* the bar exactly when its line starts a run of quote lines.              *)
(***************************************************************************)
IsListLine(l) ==
  HasPrefix(TrimSpace(l), <<"-", " ">>) \/ HasPrefix(TrimSpace(l), <<"*", " ">>)

IsQuoteLine(l) == HasPrefix(TrimSpace(l), <<">", " ">>)

\* the text given has lines that give one output line each
OneOutputLineEach ==
  \A i \in 1..Len(TextLines) :
    /\ ~IsEmptyLine(TextLines[i])
    /\ ~IsPipeLine(TextLines[i])
    /\ ~HasPrefix(TrimSpace(TextLines[i]), <<Backtick, Backtick, Backtick>>)

\* " \u2022 " and "[darkcyan]\u2502 [::-]": the bullet and the bar are one token each
BulletPrefix == <<" ", "BULLET", " ">>
QuotePrefix == <<"[darkcyan]", "BAR", " ", "[::-]">>

C25_PrefixOncePerRun ==
  (markdownParser.call # "none" /\ OneOutputLineEach)
    => /\ Len(OutputLines) = Len(TextLines)
       /\ \A i \in 1..Len(TextLines) :
            /\ HasPrefix(OutputLines[i], BulletPrefix)
                 <=> (IsListLine(TextLines[i])
                        /\ (i = 1 \/ ~IsListLine(TextLines[i - 1])))
            /\ HasPrefix(OutputLines[i], QuotePrefix)
                 <=> (IsQuoteLine(TextLines[i])
                        /\ (i = 1 \/ ~IsQuoteLine(TextLines[i - 1])))

(***************************************************************************)
(* C26: every style span opened while a line is rendered is closed within  *)
(* the same output line: each output line has at least as many closing     *)
(* tags as it has opening tags, so no style reaches the next line.         *)
(***************************************************************************)
OpeningTags == {"[::b]", "[::u]", "[::i]", "[::r]"}

Opened(l) == Cardinality({i \in 1..Len(l) : l[i] \in OpeningTags})
Closed(l) == Count("[::-]", l)

C26_SpansClosedInLine ==
  markdownParser.call # "none"
    => \A j \in 1..Len(OutputLines) : Closed(OutputLines[j]) >= Opened(OutputLines[j])

(***************************************************************************)
(* C27: how the inline pass reads a line does not depend on the earlier    *)
(* lines of the call: the span state does not pass from one line to the    *)
(* next.  In a text of paragraph lines, every output line is the output of *)
(* a render, in the same mode, of its line alone.                          *)
(***************************************************************************)
C27_Alone(i) ==
  renderInternal(rev, TextLines[i], markdownParser.call = "partial")

C27_NoCarryOver ==
  (markdownParser.call # "none" /\ OneOutputLineEach)
    => \A i \in 1..Len(TextLines) :
         (~IsListLine(TextLines[i]) /\ ~IsQuoteLine(TextLines[i]))
           => OutputLines[i] \o <<NL>> = C27_Alone(i)

(***************************************************************************)
(* C28: a backtick toggles an inline-code span in full-render mode only:   *)
(* there the first backtick of a line opens the span and the next one      *)
(* closes it, so no backtick is printed and a line of n backticks opens a  *)
(* code span for every second one; in partial-render mode no code span is  *)
(* opened.                                                                 *)
(***************************************************************************)
C28_BacktickTogglesInFull ==
  OneOrdinaryLine
    => LET line == markdownParser.text
           out == markdownParser.output
       IN /\ markdownParser.call = "full"
               => /\ Count(Backtick, out) = 0
                  /\ Count("[::r]", out) = (Count(Backtick, line) + 1) \div 2
          /\ markdownParser.call = "partial" => Count("[::r]", out) = 0

(***************************************************************************)
(* C29: the inline pass copies every printable character of a line that is *)
(* no marker to the output, in order: for a line without a backslash, the  *)
(* output without its style tags and markers is the line without its       *)
(* markers and its non-printable characters; the character after a         *)
(* backtick is among them.                                                 *)
(***************************************************************************)
IsOrdinaryChar(c) == IsPrint(c) /\ c \notin Markers

C29_OrdinaryCharsCopied ==
  (/\ markdownParser.call # "none"
   /\ OneOrdinaryLine
   /\ Count(Backslash, markdownParser.text) = 0)
    => RemoveAll(markdownParser.output, Tags \cup Markers \cup {NL})
         = SelectSeq(markdownParser.text, IsOrdinaryChar)

(***************************************************************************)
(* C30: the upstream-error path is taken exactly for the statuses that are *)
(* not 2xx: a turn whose response has a 2xx status goes on to read the     *)
(* body as an event stream, and a turn with any other status ends by the   *)
(* status error.                                                           *)
(***************************************************************************)
IsSuccess(s) == s \in 200..299

C30_ErrorPathIffNot2xx ==
  \A t \in Turns :
    net[t].status # 0 => (net[t].endedBy = "status" <=> ~IsSuccess(net[t].status))

(***************************************************************************)
(* C31: no non-printable character reaches the display, on either path:    *)
(* the text of a user message in the chat view has none, and the lines of  *)
(* an assistant message that go to the inline pass have none.              *)
(***************************************************************************)
\* what AppendToChat wrote after the label of n tokens, its last newline aside
WrittenAfter(n) ==
  SubSeq(chatHistory, Len(InitialChat(rev)) + n + 1, Len(chatHistory) - 1)

AllPrintable(s) == \A i \in 1..Len(s) : IsPrint(s[i])

\* the lines of a rendering, which the renderer ends with a newline each
RenderedLines(s) == DropLast(Split(s, NL))

C31_NoNonPrintableShown ==
  /\ markdownParser.call = "You" => AllPrintable(WrittenAfter(5))
  /\ (markdownParser.call = "Assistant" /\ HasRenderer(rev) /\ OneOutputLineEach)
       => \A l \in {RenderedLines(WrittenAfter(4))[j] :
                      j \in 1..Len(RenderedLines(WrittenAfter(4)))} : AllPrintable(l)

(***************************************************************************)
(* C32: the accumulator is reset once per turn, at the start of the turn   *)
(* and before its network goroutine can append; within a turn it only      *)
(* grows; and it is not reset before the final snapshot of the turn before *)
(* has been taken.  A step that starts a turn leaves the accumulator       *)
(* empty, with no delta of the new turn written and no goroutine or queued *)
(* update of an earlier turn left that reads it; any other step that       *)
(* changes the accumulator extends it by a delta of the current turn.      *)
(***************************************************************************)
\* no goroutine and no queued update of the turns up to t will read the accumulator
SnapshotsTaken(t) ==
  /\ \A u \in 1..t : net[u].pc \in {"done", "notice"}
  /\ \A i \in 1..Len(queue) : queue[i].kind \notin {"partial", "final"}

C32_AccumulatorResetAtTurnStart ==
  [][/\ turn' # turn
          => /\ assistantText' = <<>>
             /\ yielded'[turn'] = <<>>
             /\ net'[turn'].pc = "start"
             /\ SnapshotsTaken(turn)
     /\ (turn' = turn /\ assistantText' # assistantText)
          => /\ turn >= 1
             /\ Len(assistantText') > Len(assistantText)
             /\ SubSeq(assistantText', 1, Len(assistantText)) = assistantText
             /\ assistantText' = Concat(yielded'[turn])]_vars

\* a second turn that has accumulated a delta, after a first turn that had one
C32_Witness ==
  /\ turn = 2
  /\ yielded[1] # <<>>
  /\ yielded[2] # <<>>
  /\ assistantText = Concat(yielded[2])

(***************************************************************************)
(* C33: between the critical sections of mu the input field is disabled    *)
(* exactly when the loading flag is set; a step changes one of the two     *)
(* only with the other, and only as StartLoading (the start of a turn,     *)
(* both set) or as StopLoading (the stop of a turn, both cleared).         *)
(***************************************************************************)
\* a step that changes the loading flag or the disabled state of the input field
LoadingChange == inputDisabled' # inputDisabled \/ loadingActive' # loadingActive

\* the step contains the body of StartLoading
StartLoadingCall == turn' = turn + 1 /\ loadingActive' /\ inputDisabled'

\* the step contains the body of StopLoading, called for one of the turns
StopLoadingCall ==
  /\ ~loadingActive' /\ ~inputDisabled'
  /\ \E t \in Turns : net'[t].stopped /\ ~net[t].stopped

C33_InputDisabledIffLoading ==
  /\ [](inputDisabled <=> loadingActive)
  /\ [][LoadingChange => (StartLoadingCall \/ StopLoadingCall)]_vars

\* a second turn is loading after the first one was stopped
C33_Witness ==
  /\ turn = 2
  /\ net[1].stopped /\ ~net[2].stopped
  /\ inputDisabled /\ loadingActive

(***************************************************************************)
(* C34: a turn starts only after every display update of the turn before   *)
(* (partial render, final render, notice) has been applied: once the user  *)
(* message of a later turn is shown, no network goroutine of an earlier    *)
(* turn is still to queue an update and none of its updates is queued.     *)
(***************************************************************************)
\* the kinds of update a turn submits for the chat view
ChatUpdateKinds == {"partial", "final", "error", "notice"}

\* the positions of the queue that hold a chat update of turn t
ChatUpdatesOf(t) == {i \in 1..Len(queue) : queue[i].t = t /\ queue[i].kind \in ChatUpdateKinds}

C34_TurnStartsAfterUpdates ==
  \A t \in Turns :
    t < turn => net[t].pc = "done" /\ ChatUpdatesOf(t) = {}

(***************************************************************************)
(* C35: the line ReadString returns together with io.EOF is processed like *)
(* any other line: in a turn whose stream ended with io.EOF the deltas     *)
(* yielded are those of all the lines read, the unterminated last one      *)
(* included, and the accumulator of the turn holds their concatenation.    *)
(***************************************************************************)
C35_LastLineWithoutNewline ==
  \A t \in Turns :
    net[t].endedBy = "eof"
      => /\ yielded[t] = ref[t].out
         /\ t = turn => assistantText = Concat(ref[t].out)

(***************************************************************************)
(* C36: every notice of appendSystemError is written under the System      *)
(* label, never under the Assistant label, and stays on the display: the   *)
(* update that shows a notice adds the line "System: " and the message to  *)
(* the text of the chat view, and no later step takes the message of a     *)
(* notice away from it.                                                    *)
(***************************************************************************)
\* the messages appendSystemError is called with begin with one of these
NoticeTokens ==
  {"Stream read error: ", "JSON parse error: ",
   "Received empty response from assistant", "Assistant returned an empty response"}

\* the step applies a queued update of appendSystemError
NoticeStep == DisplayServes /\ Head(queue).kind = "notice"

C36_NoticeUnderSystemLabel ==
  [][/\ NoticeStep
          => GetText(chatHistory')
               = GetText(chatHistory) \o <<"System:", " ">> \o Head(queue).text \o <<NL>>
     /\ HasSystemError(rev)
          => \A k \in NoticeTokens :
               Contains(GetText(chatHistory), <<k>>) => Contains(GetText(chatHistory'), <<k>>)]_vars
=============================================================================
